---- MODULE Spec2Model ----
(***************************************************************************)
(* Model of the schema rewriting scripts of familiar-schemas:              *)
(*   scripts/compose_entities.py  (compose_entity, main)                   *)
(*   fix_typed_ids.py             (make_ref, update_schema, main)          *)
(*   versions/v1.1.0-alpha/json-schema/fix_json.py (fix_json_file, main)   *)
(*                                                                         *)
(* Encoding of the data:                                                   *)
(*   - a Python dict whose order matters (properties) is a sequence of     *)
(*     records [k, v]; assigning an existing key keeps its position,       *)
(*     assigning a new key appends it (DictSet);                           *)
(*   - a field schema (a JSON fragment) is a record [shape, arg,           *)
(*     description]: {"type": T, "description": D} is shape "type",        *)
(*     {"$ref": P, ...} is shape "$ref", {"anyOf": [{"$ref": P},           *)
(*     {"type": "null"}]} is shape "anyOf"; description "" is no key;      *)
(*   - a schema document is a record: keys is the set of top-level keys    *)
(*     present, and properties, required, composition and title hold the   *)
(*     values of "properties", "required", "x-familiar-composition" and    *)
(*     "title" (the default value when the key is absent);                 *)
(*   - a file is a record [exists, writable, body, size, flaws]: its text  *)
(*     is the first `size` chunks of the serialisation of `body`, with the *)
(*     syntax flaws of `flaws` in it (a comma before a closing bracket, a  *)
(*     comma missing between two strings).                                 *)
(***************************************************************************)
EXTENDS Integers, Sequences, FiniteSets, TLC

VARIABLES store, store0, script, dry_run, schema_dir, walk, content, idx,
          pc, report, runs, last

vars == <<store, store0, script, dry_run, schema_dir, walk, content, idx,
          pc, report, runs, last>>

-----------------------------------------------------------------------------
(* Bounds of the model *)

MaxProps == 3
MaxRuns == 2
NumTargets == 2

-----------------------------------------------------------------------------
(* Configuration tables of the scripts *)

PHYSICS_ENTITIES ==
  <<"Thread", "Moment", "Intent", "Bond", "Pulse", "Focus", "Filament", "Motif">>

IDENTITY_FIELDS == {"id", "tenant_id", "created_at"}

PHYSICS_FIELDS ==
  {"amplitude", "energy", "position", "velocity", "temperature",
   "position_workspace", "velocity_workspace"}

PhysicsRef ==
  [shape |-> "$ref", arg |-> "../components/FieldExcitation.schema.json",
   description |-> "Field excitation physics state"]

CompositionNote == "identity fields kept direct (typed IDs)"

NoComposition == [physics |-> <<>>, note |-> ""]

-----------------------------------------------------------------------------
(* Ordered dicts *)

Range(s) == {s[i] : i \in 1..Len(s)}

Keys(d) == [i \in 1..Len(d) |-> d[i].k]

KeySet(d) == {d[i].k : i \in 1..Len(d)}

HasKey(d, k) == \E i \in 1..Len(d) : d[i].k = k

DictGet(d, k) == d[CHOOSE i \in 1..Len(d) : d[i].k = k].v

DictSet(d, k, v) ==
  IF HasKey(d, k)
  THEN [i \in 1..Len(d) |-> IF d[i].k = k THEN [k |-> k, v |-> v] ELSE d[i]]
  ELSE Append(d, [k |-> k, v |-> v])

InSet(S, e) == e.k \in S

DictFilter(d, S) == SelectSeq(d, LAMBDA e : InSet(S, e))

DictFilterNot(d, S) == SelectSeq(d, LAMBDA e : ~InSet(S, e))

-----------------------------------------------------------------------------
(* compose_entity: the transformation of one loaded document *)

\* for k, v in fields.items(): new_props[k] = v; if k in required: append k
RECURSIVE KeepFields_AllRequired(_, _, _)
KeepFields_AllRequired(fields, required, acc) ==
  IF fields = <<>> THEN acc
  ELSE LET e == Head(fields)
           acc1 == [props |-> DictSet(acc.props, e.k, e.v),
                    req |-> Append(acc.req, e.k)]
       IN KeepFields_AllRequired(Tail(fields), required, acc1)

RECURSIVE KeepFields(_, _, _)
KeepFields(fields, required, acc) ==
  IF fields = <<>> THEN acc
  ELSE LET e == Head(fields)
           acc1 == [props |-> DictSet(acc.props, e.k, e.v),
                    req |-> IF e.k \in required THEN Append(acc.req, e.k)
                            ELSE acc.req]
       IN KeepFields(Tail(fields), required, acc1)

\* if physics_in_schema: new_props["physics"] = {...}; new_required.append
AddPhysics_AlwaysRequired(physics_in_schema, acc) ==
  [props |-> IF physics_in_schema # <<>>
             THEN DictSet(acc.props, "physics", PhysicsRef) ELSE acc.props,
   req |-> Append(acc.req, "physics")]

AddPhysics(physics_in_schema, acc) ==
  IF physics_in_schema # <<>>
  THEN [props |-> DictSet(acc.props, "physics", PhysicsRef),
        req |-> Append(acc.req, "physics")]
  ELSE acc

\* if "x-familiar-composition" not in schema: schema[...] = {...}
Annotate_Overwrite(schema, physics_in_schema) ==
  [schema EXCEPT !.keys = @ \cup {"x-familiar-composition"},
                 !.composition = [physics |-> Keys(physics_in_schema),
                                  note |-> CompositionNote]]

\* the merge of this run's fields into the entry an earlier run left
Annotate_Merge(schema, physics_in_schema) ==
  IF "x-familiar-composition" \notin schema.keys
  THEN Annotate_Overwrite(schema, physics_in_schema)
  ELSE [schema EXCEPT !.composition.physics =
                        @ \o SelectSeq(Keys(physics_in_schema),
                                       LAMBDA k : k \notin Range(@))]

Annotate(schema, physics_in_schema) ==
  IF "x-familiar-composition" \notin schema.keys
  THEN [schema EXCEPT !.keys = @ \cup {"x-familiar-composition"},
                      !.composition = [physics |-> Keys(physics_in_schema),
                                       note |-> CompositionNote]]
  ELSE schema

\* the three printed lists: identity, physics and own field names
Classify(schema) ==
  [identity |-> Keys(DictFilter(schema.properties, IDENTITY_FIELDS)),
   physics |-> Keys(DictFilter(schema.properties, PHYSICS_FIELDS)),
   own |-> Keys(DictFilterNot(schema.properties,
                              IDENTITY_FIELDS \cup PHYSICS_FIELDS))]

\* the document compose_entity returns for the loaded document `schema`
ComposeDoc(schema) ==
  LET props == schema.properties
      required == Range(schema.required)
      identity_in_schema == DictFilter(props, IDENTITY_FIELDS)
      physics_in_schema == DictFilter(props, PHYSICS_FIELDS)
      own_fields == DictFilterNot(props, IDENTITY_FIELDS \cup PHYSICS_FIELDS)
      a1 == KeepFields(identity_in_schema, required,
                       [props |-> <<>>, req |-> <<>>])
      a2 == AddPhysics(physics_in_schema, a1)
      a3 == KeepFields(own_fields, required, a2)
      updated == [schema EXCEPT !.keys = @ \cup {"properties", "required"},
                                !.properties = a3.props,
                                !.required = a3.req]
  IN Annotate(updated, physics_in_schema)

-----------------------------------------------------------------------------
(* fix_typed_ids: the typed reference rewriter *)

U(field, ref_path, nullable) ==
  [field |-> field, ref_path |-> ref_path, nullable |-> nullable]

TypedFiles ==
  <<"MessageModel.schema.json", "ChannelModel.schema.json",
    "UserModel.schema.json", "FamiliarEntityModel.schema.json",
    "FamilyInvitationModel.schema.json", "JoinRequestModel.schema.json",
    "AuditLogEntryModel.schema.json">>

UPDATES ==
  [f \in Range(TypedFiles) |->
     CASE f = "MessageModel.schema.json" ->
            <<U("sender_id", "../primitives/UserId.schema.json", TRUE),
              U("parent_id", "../primitives/MessageId.schema.json", TRUE)>>
       [] f = "ChannelModel.schema.json" ->
            <<U("owner_id", "../primitives/UserId.schema.json", TRUE)>>
       [] f = "UserModel.schema.json" ->
            <<U("primary_tenant_id", "../primitives/TenantId.schema.json", TRUE)>>
       [] f = "FamiliarEntityModel.schema.json" ->
            <<U("id", "../primitives/EntityId.schema.json", FALSE),
              U("reviewed_by", "../primitives/UserId.schema.json", TRUE),
              U("source_channel_id", "../primitives/ChannelId.schema.json", TRUE),
              U("source_message_id", "../primitives/MessageId.schema.json", TRUE)>>
       [] f = "FamilyInvitationModel.schema.json" ->
            <<U("invited_by", "../primitives/UserId.schema.json", TRUE)>>
       [] f = "JoinRequestModel.schema.json" ->
            <<U("reviewed_by", "../primitives/UserId.schema.json", TRUE)>>
       [] f = "AuditLogEntryModel.schema.json" ->
            <<U("actor_id", "../primitives/UserId.schema.json", TRUE)>>]

make_ref_KeepsOld(old_val, ref_path, nullable) ==
  [old_val EXCEPT !.shape = IF nullable THEN "anyOf" ELSE "$ref",
                  !.arg = ref_path]

\* make_ref(ref_path, nullable), assigned over properties[field_name]
make_ref(old_val, ref_path, nullable) ==
  IF nullable
  THEN [shape |-> "anyOf", arg |-> ref_path, description |-> ""]
  ELSE [shape |-> "$ref", arg |-> ref_path, description |-> ""]

\* for field_name, (ref_path, nullable) in field_updates.items(): ...
RECURSIVE RewriteFields(_, _)
RewriteFields(properties, field_updates) ==
  IF field_updates = <<>> THEN properties
  ELSE LET u == Head(field_updates)
           p1 == IF HasKey(properties, u.field)
                 THEN DictSet(properties, u.field,
                              make_ref(DictGet(properties, u.field),
                                       u.ref_path, u.nullable))
                 ELSE properties
       IN RewriteFields(p1, Tail(field_updates))

\* the fields update_schema reports as rewritten and as not found
FieldsFound(schema, field_updates) ==
  SelectSeq([i \in 1..Len(field_updates) |-> field_updates[i].field],
            LAMBDA f : HasKey(schema.properties, f))

FieldsNotFound(schema, field_updates) ==
  SelectSeq([i \in 1..Len(field_updates) |-> field_updates[i].field],
            LAMBDA f : ~HasKey(schema.properties, f))

\* the document update_schema writes back for the loaded document `schema`
UpdateDoc(schema, field_updates) ==
  [schema EXCEPT !.properties = RewriteFields(@, field_updates)]

-----------------------------------------------------------------------------
(* Files: json.load, json.dump and open(path, "w") *)

\* json.dump emits the text in chunks: the opening of the object, then one
\* chunk per top-level key
DumpLen(doc) == 1 + Cardinality(doc.keys)

\* update_schema ends the file with f.write('\n'); compose_entity does not
TrailingNewline(s) == IF s = "typed" THEN 1 ELSE 0

FullSize_NoNewline(s, doc) == DumpLen(doc)

\* the number of chunks the handler of script s writes for doc
FullSize(s, doc) == DumpLen(doc) + TrailingNewline(s)

\* json.load succeeds when the whole serialisation is there, without flaws
Parses(file) == file.size >= DumpLen(file.body) /\ file.flaws = {}

\* the text a handler holds to write: a document, a length, its flaws
Text(doc, size, flaws) == [body |-> doc, size |-> size, flaws |-> flaws]

\* the text json.dump (and f.write('\n')) makes of doc in script s
Dumped(s, doc) == Text(doc, FullSize(s, doc), {})

\* open(path, "w") truncates the file; the chunks of the text follow
Truncated(file, text) ==
  [file EXCEPT !.body = text.body, !.size = 0, !.flaws = text.flaws]

Written(s, file, doc) ==
  [file EXCEPT !.body = doc, !.size = FullSize(s, doc), !.flaws = {}]

ShouldWrite_Always(dry) == TRUE

\* if not dry_run: (write) else: (report only)
ShouldWrite(dry) == ~dry

-----------------------------------------------------------------------------
(* fix_json: the textual repair of the .json files under the directory     *)

CommaBracketTitle == "pairs like [a, ] or {b, }"

\* what the two re.sub calls make of a string value of the text: a comma
\* before a closing bracket goes also inside a string, and an empty string
\* that another string follows is read as the gap between two strings
RepairString(str, followed) ==
  IF str = CommaBracketTitle THEN "pairs like [a] or {b}"
  ELSE IF str = "" /\ followed THEN ","
  ELSE str

\* the document of the repaired first `size` chunks of the text of doc: the
\* title is the first key of the text, and the quote that opens any later
\* key is enough for the pattern of the first re.sub to take an empty title
\* for the gap between two strings
RepairChunks(doc, size) ==
  IF "title" \in doc.keys /\ size >= 2
  THEN [doc EXCEPT !.title =
          RepairString(@, size > 2 /\ doc.keys # {"title"})]
  ELSE doc

\* the document of the repaired whole text
RepairDoc(doc) == RepairChunks(doc, DumpLen(doc))

\* content after the two re.sub calls: the flaws they match are gone, the
\* length in chunks is the one that was read
RepairText(file) == Text(RepairChunks(file.body, file.size), file.size, {})

\* the document the handler of script s makes of the document at path
Rewritten(s, path, doc) ==
  IF s = "typed" THEN UpdateDoc(doc, UPDATES[path])
  ELSE IF s = "compose" THEN ComposeDoc(doc)
  ELSE RepairDoc(doc)

\* compose_entities.py goes through PHYSICS_ENTITIES; fix_typed_ids.py goes
\* through UPDATES, and fix_json.py finds the .json files of the same
\* directory
Targets(s) ==
  IF s = "compose" THEN SubSeq(PHYSICS_ENTITIES, 1, NumTargets)
  ELSE SubSeq(TypedFiles, 1, NumTargets)

\* the orders the loop of script s can take its targets in: the order of the
\* table, and for fix_json.py the order os.walk lists the files in, which is
\* the order of the directory, any one
Walks(s) ==
  IF s = "fix_json"
  THEN {w \in [1..Len(Targets(s)) -> Range(Targets(s))] :
          \A i, j \in 1..Len(w) : i # j => w[i] # w[j]}
  ELSE {Targets(s)}

-----------------------------------------------------------------------------
(* The documents and files the runs start from *)

Plain(name) == [shape |-> "type", arg |-> "string", description |-> name]

\* the sequences of at most MaxProps distinct names of S
NameSeqs(S) ==
  {s \in UNION {[1..n -> S] : n \in 0..MaxProps} :
     \A i, j \in 1..Len(s) : i # j => s[i] # s[j]}

\* the elements of s at the positions of I, in the order of s
RECURSIVE Pick(_, _, _)
Pick(s, I, i) ==
  IF i > Len(s) THEN <<>>
  ELSE (IF i \in I THEN <<s[i]>> ELSE <<>>) \o Pick(s, I, i + 1)

Doc(keys, properties, required, composition) ==
  [keys |-> keys, properties |-> properties, required |-> required,
   composition |-> composition, title |-> "Entity"]

ComposeNames == {"id", "created_at", "amplitude", "energy", "name", "physics"}

\* what an earlier composition recorded in a document that was edited since
PriorComposition == [physics |-> <<"velocity">>, note |-> CompositionNote]

ComposeProps ==
  {[i \in 1..Len(s) |->
      [k |-> s[i], v |-> Plain(s[i])]] : s \in NameSeqs(ComposeNames)}

\* the required lists over the property names and one name that is no property
RequiredLists(props) ==
  LET names == Keys(props) \o <<"ghost">>
  IN {Pick(names, I, 1) : I \in SUBSET (1..Len(names))}

ComposeDocs ==
  UNION {
    {Doc({"title", "properties", "required"} \cup ck, props, req, cv) :
       req \in RequiredLists(props)}
    \cup (IF props = <<>>
          THEN {Doc({"title"} \cup ck, <<>>, <<>>, cv)} ELSE {}) :
    props \in ComposeProps,
    ck \in {{}, {"x-familiar-composition"}},
    cv \in {NoComposition, PriorComposition}}

ComposeInputs ==
  {d \in ComposeDocs :
     d.composition = IF "x-familiar-composition" \in d.keys
                     THEN PriorComposition ELSE NoComposition}

TypedDocs(f) ==
  LET names == {UPDATES[f][i].field : i \in 1..Len(UPDATES[f])} \cup {"name"}
  IN {Doc({"title", "properties", "required"},
          [i \in 1..Len(s) |-> [k |-> s[i], v |-> Plain(s[i])]],
          Pick(s, {1}, 1), NoComposition) : s \in NameSeqs(names)}
     \cup {Doc({"title"}, <<>>, <<>>, NoComposition)}

FileOf(s, doc) ==
  [exists |-> TRUE, writable |-> TRUE, body |-> doc,
   size |-> FullSize(s, doc), flaws |-> {}]

EmptyDoc == Doc({}, <<>>, <<>>, NoComposition)

Missing ==
  [exists |-> FALSE, writable |-> TRUE, body |-> EmptyDoc, size |-> 0,
   flaws |-> {}]

RawEntity ==
  Doc({"title", "properties", "required"},
      <<[k |-> "amplitude", v |-> Plain("amplitude")],
        [k |-> "name", v |-> Plain("name")],
        [k |-> "id", v |-> Plain("id")]>>,
      <<"name">>, NoComposition)

PlainEntity ==
  Doc({"title", "properties", "required"},
      <<[k |-> "name", v |-> Plain("name")]>>, <<>>, NoComposition)

TypedModel(f) ==
  Doc({"title", "properties", "required"},
      <<[k |-> "name", v |-> Plain("name")],
        [k |-> UPDATES[f][1].field, v |-> Plain("uuid")]>>,
      <<"name">>, NoComposition)

BatchDocs(s, path) ==
  IF s = "compose" THEN {RawEntity, ComposeDoc(RawEntity), PlainEntity}
  ELSE IF s = "typed" THEN {TypedModel(path), PlainEntity}
  ELSE {TypedModel(path),
        [TypedModel(path) EXCEPT !.title = CommaBracketTitle],
        [TypedModel(path) EXCEPT !.title = ""]}

\* the files fix_json.py finds flawed: a comma before a closing bracket, a
\* comma missing between two strings (the second one read-only)
FlawedFiles(path) ==
  {[FileOf("typed", TypedModel(path)) EXCEPT !.flaws = {"trailing_comma"}],
   [FileOf("typed", TypedModel(path)) EXCEPT !.flaws = {"missing_comma"},
                                             !.writable = FALSE]}

\* a target's file: absent, whole, read-only, or cut short (not parseable);
\* os.walk of fix_json.py lists only files that exist
BatchFiles(s, path) ==
  LET first == IF s = "compose" THEN RawEntity ELSE TypedModel(path)
      kind == IF s = "compose" THEN "compose" ELSE "typed"
  IN (IF s = "fix_json" THEN FlawedFiles(path) ELSE {Missing})
     \cup {FileOf(kind, d) : d \in BatchDocs(s, path)}
     \cup {[FileOf(kind, first) EXCEPT !.writable = FALSE]}
     \cup {[FileOf(kind, first) EXCEPT !.size = DumpLen(first) - 1]}

NoContent == Text(EmptyDoc, 0, {})

NoCall ==
  [op |-> "none", path |-> "", dry |-> FALSE, input |-> EmptyDoc,
   output |-> EmptyDoc, summary |-> Classify(EmptyDoc), applied |-> 0,
   ok |-> TRUE]

-----------------------------------------------------------------------------
(* Calls of the handlers on one document: compose_entity(path, dry_run),    *)
(* update_schema(schema_file, field_updates) and fix_json_file(filepath),   *)
(* each as one step                                                         *)

InitCalls ==
  /\ script \in {"compose", "typed", "fix_json"}
  /\ \/ /\ script = "compose"
        /\ \E d \in ComposeInputs :
             store = [p \in {PHYSICS_ENTITIES[1]} |-> FileOf("compose", d)]
     \/ /\ script = "typed"
        /\ \E f \in Range(TypedFiles) : \E d \in TypedDocs(f) :
             store = [p \in {f} |-> FileOf("typed", d)]
     \/ /\ script = "fix_json"
        /\ \E file \in BatchFiles("fix_json", TypedFiles[1]) :
             store = [p \in {TypedFiles[1]} |-> file]
  /\ store0 = store
  /\ dry_run = FALSE
  /\ schema_dir = TRUE
  /\ walk = <<>>
  /\ content = NoContent
  /\ idx = 1
  /\ pc = "call"
  /\ report = <<>>
  /\ runs = 0
  /\ last = NoCall

compose_entity(schema_path, dry) ==
  /\ script = "compose"
  /\ pc = "call"
  /\ runs < MaxRuns
  /\ store[schema_path].exists
  /\ Parses(store[schema_path])
  /\ ShouldWrite(dry) => store[schema_path].writable
  /\ LET schema == store[schema_path].body
         out == ComposeDoc(schema)
     IN /\ store' = IF ShouldWrite(dry)
                    THEN [store EXCEPT
                            ![schema_path] = Written("compose", @, out)]
                    ELSE store
        /\ last' = [op |-> "compose_entity", path |-> schema_path,
                    dry |-> dry, input |-> schema, output |-> out,
                    summary |-> Classify(schema),
                    applied |-> last.applied
                                + (IF ShouldWrite(dry) THEN 1 ELSE 0),
                    ok |-> TRUE]
  /\ dry_run' = dry
  /\ runs' = runs + 1
  /\ UNCHANGED <<store0, script, schema_dir, walk, content, idx, pc, report>>

update_schema(schema_file) ==
  /\ script = "typed"
  /\ pc = "call"
  /\ runs < MaxRuns
  /\ store[schema_file].exists
  /\ Parses(store[schema_file])
  /\ store[schema_file].writable
  /\ LET schema == store[schema_file].body
         out == UpdateDoc(schema, UPDATES[schema_file])
     IN /\ store' = [store EXCEPT ![schema_file] = Written("typed", @, out)]
        /\ last' = [op |-> "update_schema", path |-> schema_file,
                    dry |-> FALSE, input |-> schema, output |-> out,
                    summary |-> Classify(schema),
                    applied |-> last.applied + 1,
                    ok |-> TRUE]
  /\ runs' = runs + 1
  /\ UNCHANGED <<store0, script, dry_run, schema_dir, walk, content, idx, pc,
                 report>>

\* fix_json_file: the text is read, repaired and written back, then tested
\* with json.loads; an exception (the file cannot be written) is caught
fix_json_file(filepath) ==
  /\ script = "fix_json"
  /\ pc = "call"
  /\ runs < MaxRuns
  /\ store[filepath].exists
  /\ LET file == store[filepath]
         text == RepairText(file)
         fixed == [Truncated(file, text) EXCEPT !.size = text.size]
     IN /\ store' = IF file.writable
                    THEN [store EXCEPT ![filepath] = fixed]
                    ELSE store
        /\ last' = [op |-> "fix_json_file", path |-> filepath,
                    dry |-> FALSE, input |-> file.body,
                    output |-> text.body, summary |-> Classify(file.body),
                    applied |-> last.applied + 1,
                    ok |-> file.writable /\ Parses(fixed)]
  /\ runs' = runs + 1
  /\ UNCHANGED <<store0, script, dry_run, schema_dir, walk, content, idx, pc,
                 report>>

NextCalls ==
  \/ \E p \in DOMAIN store : \E dry \in BOOLEAN : compose_entity(p, dry)
  \/ \E f \in DOMAIN store : update_schema(f)
  \/ \E f \in DOMAIN store : fix_json_file(f)

Spec == InitCalls /\ [][NextCalls]_vars

-----------------------------------------------------------------------------
(* Properties of one call of compose_entity or update_schema (Spec) *)

Composed == last.op = "compose_entity"

PhysicsIn(doc) == KeySet(DictFilter(doc.properties, PHYSICS_FIELDS))

KeptIn(doc) == KeySet(doc.properties) \ PHYSICS_FIELDS

Occurrences(d, k) == Cardinality({i \in 1..Len(d) : d[i].k = k})

\* C1: a second apply-mode run of compose_entity stores the document the
\* first one stored (properties and their order, the required list, and
\* every other top-level key)
C1_Idempotent ==
  (Composed /\ ~last.dry /\ last.applied >= 2) =>
    store[last.path].body = last.input

\* C2: every property of the original is accounted for exactly once in the
\* output of compose_entity: a kept field is there once under its own name
\* with its schema unchanged, a physics field is removed and stands behind
\* the one "physics" reference
C2_FieldConservation ==
  Composed =>
    \A i \in 1..Len(last.input.properties) :
      LET e == last.input.properties[i]
          outp == last.output.properties
      IN IF e.k \in PHYSICS_FIELDS
         THEN /\ ~HasKey(outp, e.k)
              /\ Occurrences(outp, "physics") = 1
              /\ DictGet(outp, "physics") = PhysicsRef
         ELSE /\ Occurrences(outp, e.k) = 1
              /\ DictGet(outp, e.k) = e.v

\* C3: every name of the required list compose_entity produces is a key of
\* the properties it produces
C3_RequiredInProperties ==
  Composed => Range(last.output.required) \subseteq KeySet(last.output.properties)

C3_Witness ==
  /\ Composed
  /\ "ghost" \in Range(last.input.required)
  /\ PhysicsIn(last.input) = {}
  /\ last.output.required # <<>>

\* C4: the output of compose_entity has a "physics" property that is the
\* FieldExcitation reference exactly when the original had a physics field
C4_ReferenceIffPhysicsField ==
  Composed =>
    ((/\ HasKey(last.output.properties, "physics")
      /\ DictGet(last.output.properties, "physics") = PhysicsRef)
     <=> PhysicsIn(last.input) # {})

\* C5: as a set, the rebuilt required list is the kept properties that were
\* required, plus "physics" whenever the reference was introduced, whether
\* or not an absorbed field was required
C5_RequiredRebuilt ==
  Composed =>
    Range(last.output.required) =
      (KeptIn(last.input) \cap Range(last.input.required))
      \cup (IF PhysicsIn(last.input) # {} THEN {"physics"} ELSE {})

C5_Witness ==
  /\ Composed
  /\ PhysicsIn(last.input) # {}
  /\ PhysicsIn(last.input) \cap Range(last.input.required) = {}
  /\ KeptIn(last.input) \ Range(last.input.required) # {}
  /\ "physics" \in Range(last.output.required)

\* C8: update_schema replaces the schema of each configured field that is
\* present by the reference (wrapped in anyOf with null when nullable),
\* keeping nothing of the old fragment, creates no absent field, and leaves
\* every other property and top-level key as it was
TypedRef(u) ==
  [shape |-> IF u.nullable THEN "anyOf" ELSE "$ref", arg |-> u.ref_path,
   description |-> ""]

C8_TypedRewrite ==
  last.op = "update_schema" =>
    LET cfg == UPDATES[last.path]
        inp == last.input
        out == last.output
    IN /\ store[last.path].body = out
       /\ out.keys = inp.keys
       /\ out.required = inp.required
       /\ out.composition = inp.composition
       /\ out.title = inp.title
       /\ Keys(out.properties) = Keys(inp.properties)
       /\ \A i \in 1..Len(inp.properties) :
            LET k == inp.properties[i].k
                us == {j \in 1..Len(cfg) : cfg[j].field = k}
            IN IF us = {}
               THEN out.properties[i].v = inp.properties[i].v
               ELSE \A j \in us : out.properties[i].v = TypedRef(cfg[j])

C8_Witness ==
  /\ last.op = "update_schema"
  /\ last.path = "FamiliarEntityModel.schema.json"
  /\ HasKey(last.input.properties, "id")
  /\ HasKey(last.input.properties, "reviewed_by")
  /\ HasKey(last.input.properties, "name")
  /\ ~HasKey(last.input.properties, "source_channel_id")
  /\ last.input.properties # last.output.properties

\* C9 as claimed: after a run, the composition metadata holds the physics
\* fields this run absorbed and everything an earlier run recorded
C9_MetadataMerged ==
  Composed =>
    /\ Range(last.input.composition.physics)
         \subseteq Range(last.output.composition.physics)
    /\ Range(last.summary.physics)
         \subseteq Range(last.output.composition.physics)

\* C9 amended: a run that finds no composition metadata records exactly the
\* physics fields it absorbed and the fixed note; a run that finds the key
\* leaves the entry as it is and adds nothing to it
C9_MetadataKeptOrSet ==
  Composed =>
    /\ "x-familiar-composition" \in last.output.keys
    /\ last.output.composition =
         IF "x-familiar-composition" \in last.input.keys
         THEN last.input.composition
         ELSE [physics |-> last.summary.physics, note |-> CompositionNote]

C9_Witness ==
  /\ Composed
  /\ "x-familiar-composition" \in last.input.keys
  /\ last.summary.physics # <<>>
  /\ last.output.composition = PriorComposition

-----------------------------------------------------------------------------
(* The drivers, main() of compose_entities.py, of fix_typed_ids.py and of   *)
(* fix_json.py, with each file write in its steps: open(path, "w"), the     *)
(* chunks, close                                                            *)

Entry(target, outcome, summary, candidate) ==
  [target |-> target, outcome |-> outcome, summary |-> summary,
   candidate |-> candidate]

\* nothing is printed about the fields of a target that is not loaded
NoFields(s) ==
  IF s = "compose" THEN [identity |-> <<>>, physics |-> <<>>, own |-> <<>>]
  ELSE [found |-> <<>>, not_found |-> <<>>]

\* what the handler prints about the fields of the loaded document
Summary(s, path, doc) ==
  IF s = "compose" THEN Classify(doc)
  ELSE IF s = "typed"
  THEN [found |-> FieldsFound(doc, UPDATES[path]),
        not_found |-> FieldsNotFound(doc, UPDATES[path])]
  ELSE [found |-> <<>>, not_found |-> <<>>]

InitBatch ==
  /\ script \in {"compose", "typed", "fix_json"}
  /\ dry_run \in BOOLEAN
  /\ script # "compose" => dry_run = FALSE
  /\ schema_dir \in BOOLEAN
  /\ script # "compose" => schema_dir
  /\ store \in [Range(Targets(script)) -> UNION {BatchFiles(script, p) :
                                                   p \in Range(Targets(script))}]
  /\ \A p \in DOMAIN store : store[p] \in BatchFiles(script, p)
  /\ ~schema_dir => \A p \in DOMAIN store : store[p] = Missing
  /\ store0 = store
  /\ walk \in Walks(script)
  /\ content = NoContent
  /\ idx = 1
  /\ pc = "start"
  /\ report = <<>>
  /\ runs = 0
  /\ last = NoCall

\* compose_entities.py: the schema directory exists, the loop starts (the
\* other two scripts start their loop at once)
Start ==
  /\ pc = "start"
  /\ script = "compose" => schema_dir
  /\ pc' = "loop"
  /\ UNCHANGED <<store, store0, script, dry_run, schema_dir, walk, content, idx,
                 report, runs, last>>

\* compose_entities.py: no schema directory, sys.exit(1) before the loop
NoSchemaDir ==
  /\ pc = "start"
  /\ script = "compose"
  /\ ~schema_dir
  /\ pc' = "exited"
  /\ UNCHANGED <<store, store0, script, dry_run, schema_dir, walk, content, idx,
                 report, runs, last>>

AtTarget == pc = "loop" /\ idx <= Len(walk)

Handles == script \in {"compose", "typed"}

Target == walk[idx]

\* the path does not exist: that is reported, before any load and any
\* field line, and the loop goes on
NotFound ==
  /\ AtTarget
  /\ ~store[Target].exists
  /\ report' = Append(report, Entry(Target, "not_found", NoFields(script),
                                    EmptyDoc))
  /\ idx' = idx + 1
  /\ UNCHANGED <<store, store0, script, dry_run, schema_dir, walk, content, pc,
                 runs, last>>

\* json.load raises: nothing catches it, the run ends
LoadFails ==
  /\ AtTarget
  /\ Handles
  /\ store[Target].exists
  /\ ~Parses(store[Target])
  /\ pc' = "crashed"
  /\ UNCHANGED <<store, store0, script, dry_run, schema_dir, walk, content, idx,
                 report, runs, last>>

\* compose_entity under --dry-run: the summary, and no write
Preview ==
  /\ AtTarget
  /\ Handles
  /\ store[Target].exists
  /\ Parses(store[Target])
  /\ ~ShouldWrite(dry_run)
  /\ report' = Append(report,
                      Entry(Target, "dry_run",
                            Summary(script, Target, store[Target].body),
                            Rewritten(script, Target, store[Target].body)))
  /\ idx' = idx + 1
  /\ UNCHANGED <<store, store0, script, dry_run, schema_dir, walk, content, pc,
                 runs, last>>

\* the summary is printed, then open(path, "w") raises on a file that
\* cannot be written: the run ends
OpenFails ==
  /\ AtTarget
  /\ Handles
  /\ store[Target].exists
  /\ Parses(store[Target])
  /\ ShouldWrite(dry_run)
  /\ ~store[Target].writable
  /\ LET doc == store[Target].body
     IN report' = Append(report,
                         Entry(Target, "writing", Summary(script, Target, doc),
                               Rewritten(script, Target, doc)))
  /\ pc' = "crashed"
  /\ UNCHANGED <<store, store0, script, dry_run, schema_dir, walk, content, idx,
                 runs, last>>

\* the summary is printed, open(path, "w") truncates the file
OpenForWrite ==
  /\ AtTarget
  /\ Handles
  /\ store[Target].exists
  /\ Parses(store[Target])
  /\ ShouldWrite(dry_run)
  /\ store[Target].writable
  /\ LET doc == store[Target].body
         out == Rewritten(script, Target, doc)
     IN /\ content' = Dumped(script, out)
        /\ store' = [store EXCEPT ![Target] = Truncated(@, content')]
        /\ report' = Append(report, Entry(Target, "writing",
                                          Summary(script, Target, doc), out))
  /\ pc' = "writing"
  /\ UNCHANGED <<store0, script, dry_run, schema_dir, walk, idx, runs, last>>

\* one more chunk of the text (json.dump, f.write) reaches the file
WriteChunk ==
  /\ pc = "writing"
  /\ store[Target].size < content.size
  /\ store' = [store EXCEPT ![Target].size = @ + 1]
  /\ UNCHANGED <<store0, script, dry_run, schema_dir, walk, content, idx, pc,
                 report, runs, last>>

\* the write raises midway (the storage fails): the run ends
WriteFails ==
  /\ pc = "writing"
  /\ Handles
  /\ store[Target].size < content.size
  /\ pc' = "crashed"
  /\ UNCHANGED <<store, store0, script, dry_run, schema_dir, walk, content, idx,
                 report, runs, last>>

\* the file is closed, the update is reported, the loop goes on
CloseFile ==
  /\ pc = "writing"
  /\ Handles
  /\ store[Target].size = content.size
  /\ report' = [report EXCEPT ![Len(report)].outcome = "updated"]
  /\ content' = NoContent
  /\ idx' = idx + 1
  /\ pc' = "loop"
  /\ UNCHANGED <<store, store0, script, dry_run, schema_dir, walk, runs, last>>

\* fix_json_file: the text is read and repaired, open(filepath, 'w')
\* truncates the file
FixOpen ==
  /\ AtTarget
  /\ script = "fix_json"
  /\ store[Target].exists
  /\ store[Target].writable
  /\ content' = RepairText(store[Target])
  /\ store' = [store EXCEPT ![Target] = Truncated(@, content')]
  /\ pc' = "writing"
  /\ UNCHANGED <<store0, script, dry_run, schema_dir, walk, idx, report, runs,
                 last>>

\* fix_json_file: open raises, or the write raises midway; except Exception
\* catches it, the error is printed and the walk goes on
FixFails ==
  /\ script = "fix_json"
  /\ \/ AtTarget /\ store[Target].exists /\ ~store[Target].writable
     \/ pc = "writing" /\ store[Target].size < content.size
  /\ report' = Append(report,
                      Entry(Target, "error",
                            Summary(script, Target, store[Target].body),
                            store[Target].body))
  /\ content' = NoContent
  /\ idx' = idx + 1
  /\ pc' = "loop"
  /\ UNCHANGED <<store, store0, script, dry_run, schema_dir, walk, runs, last>>

\* fix_json_file: the file is closed, json.loads(content) decides whether
\* the file counts as fixed
FixClose ==
  /\ pc = "writing"
  /\ script = "fix_json"
  /\ store[Target].size = content.size
  /\ report' = Append(report,
                      Entry(Target,
                            IF Parses(store[Target]) THEN "fixed"
                            ELSE "still_invalid",
                            Summary(script, Target, store[Target].body),
                            store[Target].body))
  /\ content' = NoContent
  /\ idx' = idx + 1
  /\ pc' = "loop"
  /\ UNCHANGED <<store, store0, script, dry_run, schema_dir, walk, runs, last>>

\* the for loop is exhausted
Finish ==
  /\ pc = "loop"
  /\ idx > Len(walk)
  /\ pc' = "done"
  /\ UNCHANGED <<store, store0, script, dry_run, schema_dir, walk, content, idx,
                 report, runs, last>>

\* the process is stopped from outside, wherever it is
Interrupt ==
  /\ pc \in {"start", "loop", "writing"}
  /\ pc' = "interrupted"
  /\ UNCHANGED <<store, store0, script, dry_run, schema_dir, walk, content, idx,
                 report, runs, last>>

NextBatch ==
  \/ Start
  \/ NoSchemaDir
  \/ FixOpen
  \/ FixFails
  \/ FixClose
  \/ NotFound
  \/ LoadFails
  \/ Preview
  \/ OpenFails
  \/ OpenForWrite
  \/ WriteChunk
  \/ WriteFails
  \/ CloseFile
  \/ Finish
  \/ Interrupt

SpecBatch == InitBatch /\ [][NextBatch]_vars

-----------------------------------------------------------------------------
(* Properties of the runs of the drivers (SpecBatch) *)

Original(p) == store0[p].body

\* the file at p holds the whole rewritten document, as the handler leaves it
WholeRewritten(p) ==
  /\ store[p].body = Rewritten(script, p, Original(p))
  /\ store[p].size = DumpLen(store[p].body) + TrailingNewline(script)
  /\ store[p].exists = store0[p].exists
  /\ store[p].writable = store0[p].writable

\* C6: a --dry-run run of the composition driver computes for each document
\* the candidate and the field summary an apply run computes (those of the
\* document the run started from) and leaves every stored document as it
\* was; the apply run stores the candidate
C6_PreviewSameAndNoWrite ==
  script = "compose" =>
    /\ \A i \in 1..Len(report) :
         report[i].outcome # "not_found" =>
           /\ report[i].summary = Classify(Original(report[i].target))
           /\ report[i].candidate = ComposeDoc(Original(report[i].target))
           /\ report[i].outcome = IF dry_run THEN "dry_run"
                                  ELSE IF i = idx /\ pc # "loop" THEN "writing"
                                  ELSE "updated"
    /\ dry_run => store = store0
    /\ ~dry_run =>
         \A i \in 1..Len(report) :
           report[i].outcome = "updated" =>
             /\ store[report[i].target].body = report[i].candidate
             /\ WholeRewritten(report[i].target)

C6_Witness ==
  /\ script = "compose"
  /\ dry_run
  /\ pc = "done"
  /\ Len(report) = Len(Targets(script))
  /\ \E i \in 1..Len(report) :
       /\ report[i].outcome = "dry_run"
       /\ report[i].summary.physics # <<>>
       /\ report[i].candidate # Original(report[i].target)

\* C7: a run that ends without being stopped from outside has gone through
\* the whole target list, whatever happened to single targets (missing,
\* not parseable, not writable)
C7_BatchNeverAborts ==
  pc \in {"done", "crashed"} =>
    \A i \in 1..Len(walk) : i < idx \/ (i = idx /\ pc = "crashed")

\* C10 as claimed: when a run of compose_entities.py or fix_typed_ids.py is
\* stopped from outside, every stored file is its whole original content or
\* its whole rewritten content
C10_AtomicWrites ==
  (pc = "interrupted" /\ Handles) =>
    \A p \in DOMAIN store : store[p] = store0[p] \/ WholeRewritten(p)

\* C10 amended: when such a run is stopped, every file it had not reached is
\* untouched, every file it had finished is its whole original or its whole
\* rewritten content, and the one file it was writing may be cut short: its
\* text is a prefix (possibly empty) of the rewritten content
C10_OnlyCurrentFilePartial ==
  (pc = "interrupted" /\ Handles) =>
    \A i \in 1..Len(Targets(script)) :
      LET p == Targets(script)[i]
      IN \/ store[p] = store0[p]
         \/ i < idx /\ WholeRewritten(p)
         \/ /\ i = idx
            /\ store[p].body = Rewritten(script, p, Original(p))
            /\ store[p].size
                 \in 0..(DumpLen(store[p].body) + TrailingNewline(script))
            /\ store[p].exists = store0[p].exists
            /\ store[p].writable = store0[p].writable

C10_Witness ==
  /\ pc = "interrupted"
  /\ Handles
  /\ idx = 2
  /\ WholeRewritten(Targets(script)[1])
  /\ store[Targets(script)[1]] # store0[Targets(script)[1]]
  /\ store[Targets(script)[2]].size \in 1..(DumpLen(store[Targets(script)[2]].body) - 1)
  /\ store[Targets(script)[2]] # store0[Targets(script)[2]]

====
